---- MODULE Spec2Model ----
(***************************************************************************)
(* Event-decay risk engine and regime-driven price simulator               *)
(* (engine.py: IntelligenceEngine, MarketSimulator).                       *)
(*                                                                         *)
(* Number representation (floats of the source as fixed point):            *)
(*   weights, impacts, risk : thousandths          (5.0   -> 5000)         *)
(*   risk_score             : hundredths           (27.0  -> 2700)         *)
(*   prices                 : cents                (4800.0 -> 480000)      *)
(*   band values            : hundredths of a cent (100.0 -> 1000000)      *)
(*   bias, shock, pct       : ten-thousandths      (0.001 -> 10)           *)
(*   volatility multiplier  : tenths               (0.8   -> 8)            *)
(*   change_pct             : [num, den], standing for num / den * 100     *)
(*   time                   : whole hours since the simulation start       *)
(* ProcessedEvent objects live in a heap (objs) and are referred to by     *)
(* identity, so that a list holding an object and the object itself are    *)
(* distinct things, as they are in Python.                                 *)
(***************************************************************************)
EXTENDS Integers, Sequences, FiniteSets, TLC

VARIABLES
    objs,           \* heap: id -> ProcessedEvent (models.py:27-31)
    events,         \* IntelligenceEngine.events: list of object ids
    current_state,  \* IntelligenceEngine.current_state
    current_regime, \* IntelligenceEngine.current_regime
    tickers,        \* MarketSimulator.tickers: symbol -> Ticker
    snapshot,       \* the MarketSnapshot most recently returned (or NoSnapshot)
    ticks,          \* number of update_prices calls made so far
    last            \* the call just made: its name, arguments and locals

vars == <<objs, events, current_state, current_regime, tickers, snapshot, ticks, last>>

----------------------------------------------------------------------------
(* Bounds of the exploration *)

MaxEvents == 2      \* longest ledger explored by Spec
MaxTicks == 2       \* detect_state calls per behaviour of Spec
MaxVaried == 2      \* leading ticks of SimSpec whose inputs are varied
SimTicks == 101     \* detect_state calls per behaviour of SimSpec
MaxLedger == 6      \* longest ledger explored by TopSpec
MaxClock == 2       \* hours the clock of ClockSpec runs
MaxHeld == 2        \* longest ledger explored by ClockSpec
MaxBatch == 3       \* longest array given to calculate_decay_batch
MaxHist == 22       \* longest price history given to the band functions
MaxListed == 2      \* longest ledger explored by QuerySpec
MaxThreaded == 3    \* longest ledger explored by ThreadSpec
MaxFleet == 2       \* longest array given to batch_update_tankers
MaxQuiet == 2       \* hour from which RecoverySpec ingests no more
MaxRecovery == 7    \* hours the clock of RecoverySpec runs
MaxBurst == 2       \* longest ledger explored by RecoverySpec
MaxShocks == 4      \* leading ticks of ShockSpec whose draws are varied
ShockTicks == 103   \* detect_state calls per behaviour of ShockSpec
MaxSteps == 4       \* step_simulation calls per behaviour of ServerSpec

\* instants (hours) passed to apply_decay and to detect_state, and the
\* timestamps of the events offered to ingest
Times == {0, 1}
DetectTimes == {1}
EventTimes == {0}

\* base_impact values offered to ingest (thousandths): 0.5, 5.0, 10.0 and
\* 15.0, the last outside the documented range 0.0 to 10.0
Impacts == {500, 5000, 10000, 15000}

MarketEvents == [timestamp : EventTimes, base_impact : Impacts]

----------------------------------------------------------------------------
(* Arithmetic helpers *)

RECURSIVE SumSeq(_)
SumSeq(s) == IF s = <<>> THEN 0 ELSE Head(s) + SumSeq(Tail(s))

Range(s) == {s[i] : i \in 1..Len(s)}

\* round(n / d) to the nearest integer, ties to even (Python's round)
RoundHalfEven(n, d) ==
    LET q == n \div d
        r == n % d
    IN  IF 2 * r < d THEN q
        ELSE IF 2 * r > d THEN q + 1
        ELSE IF q % 2 = 0 THEN q ELSE q + 1

RECURSIVE IsqrtIn(_, _, _)
\* the largest r in lo..hi with r * r <= n
IsqrtIn(n, lo, hi) ==
    IF lo >= hi THEN lo
    ELSE LET mid == (lo + hi + 1) \div 2
         IN  IF mid * mid <= n THEN IsqrtIn(n, mid, hi) ELSE IsqrtIn(n, lo, mid - 1)

\* math.sqrt(n), rounded down to a whole number
Isqrt(n) == IsqrtIn(n, 0, 46340)

\* math.exp(-0.7 * k) in ten-thousandths, for a whole number of hours k
\* (decay_rate = 0.7 as in test_engine.py)
ExpNeg(k) ==
    CASE k = -4 -> 164446
      [] k = -3 -> 81662
      [] k = -2 -> 40552
      [] k = -1 -> 20138
      [] k = 0  -> 10000
      [] k = 1  -> 4966
      [] k = 2  -> 2466
      [] k = 3  -> 1225
      [] k = 4  -> 608
      [] k = 5  -> 302
      [] k = 6  -> 150
      [] k = 7  -> 74
      [] k = 8  -> 37

\* relevance_score * math.exp(-decay_rate * time_delta)
DecayedWeight(relevance_score, time_delta) ==
    (relevance_score * ExpNeg(time_delta)) \div 10000

----------------------------------------------------------------------------
(* Data model *)

NoSnapshot == [timestamp |-> -1, state |-> "NONE", risk_score |-> 0,
               active_events |-> <<>>, regime |-> "NONE"]

ProcessedEvent(event, relevance) ==
    [original_event |-> event, current_weight |-> relevance,
     relevance_score |-> relevance]

PricePoint(timestamp, price, volume) ==
    [timestamp |-> timestamp, price |-> price, volume |-> volume]

Symbols == {"SPX", "NDX", "BTC", "VIX", "AAPL", "NVDA", "JPM", "XOM", "WTI", "BRENT"}

StartPrice(sym) ==
    CASE sym = "SPX"   -> 480000
      [] sym = "NDX"   -> 1680000
      [] sym = "BTC"   -> 4200000
      [] sym = "VIX"   -> 1400
      [] sym = "AAPL"  -> 18500
      [] sym = "NVDA"  -> 55000
      [] sym = "JPM"   -> 17000
      [] sym = "XOM"   -> 10000
      [] sym = "WTI"   -> 7250
      [] sym = "BRENT" -> 7780


Ticker(price) ==
    [current_price |-> price, change_pct |-> [num |-> 0, den |-> 1],
     history |-> <<>>]

----------------------------------------------------------------------------
(* MarketSimulator *)

\* __init__: every ticker starts with one PricePoint at start_time, volume 0
MarketSimulatorInit ==
    [sym \in Symbols |->
        [Ticker(StartPrice(sym)) EXCEPT
            !.history = <<PricePoint(0, StartPrice(sym), 0)>>]]

\* The random draws of one instrument in one tick: z is the standard normal
\* deviate behind random.gauss(0, sigma) = z * sigma, u is random.uniform(1000, 5000)
RandomDraws == {[z |-> 0, u |-> 1000], [z |-> 1, u |-> 5000], [z |-> -1, u |-> 3000]}

DefaultDraw == [z |-> 0, u |-> 1000]

\* The draw vectors explored for tick number n (0-based)
DrawVectors(n) ==
    IF n < MaxVaried THEN {[sym \in Symbols |-> d] : d \in RandomDraws}
    ELSE {[sym \in Symbols |-> DefaultDraw]}

\* Bias with the crash bias from 25.0 on (>= in place of >)
BiasCrashAt25(system_risk) ==
    IF system_risk >= 25000 THEN -200
    ELSE IF system_risk > 15000 THEN -50
    ELSE IF system_risk < 5000 THEN 10
    ELSE 0

Bias(system_risk) ==
    IF system_risk > 25000 THEN -200
    ELSE IF system_risk > 15000 THEN -50
    ELSE IF system_risk < 5000 THEN 10
    ELSE 0

VolatilityMultiplier(system_risk) ==
    IF system_risk > 25000 THEN 40
    ELSE IF system_risk > 15000 THEN 20
    ELSE IF system_risk < 5000 THEN 8
    ELSE 10

BaseVol(sym) ==
    IF sym \in {"WTI", "BRENT"} THEN 80
    ELSE IF sym = "BTC" THEN 100
    ELSE IF sym # "VIX" THEN 20 ELSE 500

\* random.gauss(0, base_vol * volatility_multiplier)
Shock(sym, z, volatility_multiplier) ==
    (z * BaseVol(sym) * volatility_multiplier) \div 10

PctChange(sym, shock, bias) ==
    IF sym = "VIX" THEN shock - (bias * 5) ELSE shock + bias

\* round(ticker.current_price * (1 + change_pct), 2); the product is taken
\* in two parts (whole hundreds of the currency unit, and the rest) to stay
\* within 32-bit integers
NewPrice(current_price, change_pct) ==
    LET whole == (current_price \div 10000) * (10000 + change_pct)
        rest  == (current_price % 10000) * (10000 + change_pct)
        q     == whole + (rest \div 10000)
        r     == rest % 10000
    IN  IF 2 * r < 10000 THEN q
        ELSE IF 2 * r > 10000 THEN q + 1
        ELSE IF q % 2 = 0 THEN q ELSE q + 1

\* int(random.uniform(1000, 5000) * volatility_multiplier)
Volume(u, volatility_multiplier) == (u * volatility_multiplier) \div 10

HistoryLimit == 100

\* AppendBounded evicting the newest point (pop() in place of pop(0))
AppendBoundedPopLast(history, point) ==
    LET h == Append(history, point)
    IN  IF Len(h) > HistoryLimit THEN SubSeq(h, 1, Len(h) - 1) ELSE h

\* history.append(point); if len(history) > 100: history.pop(0)
AppendBounded(history, point) ==
    LET h == Append(history, point)
    IN  IF Len(h) > HistoryLimit THEN Tail(h) ELSE h

\* ChangePct against the previous tick's price (history[-2])
ChangePctPrevTick(current_price, history) ==
    [num |-> current_price - history[Len(history) - 1].price,
     den |-> history[Len(history) - 1].price]

\* ((current_price - history[0].price) / history[0].price) * 100
ChangePct(current_price, history) ==
    [num |-> current_price - history[1].price, den |-> history[1].price]

\* the loop body of update_prices for one ticker
UpdateTicker(ticker, sym, current_time, system_risk, draw) ==
    LET bias      == Bias(system_risk)
        mult      == VolatilityMultiplier(system_risk)
        shock     == Shock(sym, draw.z, mult)
        price     == NewPrice(ticker.current_price, PctChange(sym, shock, bias))
        volume    == Volume(draw.u, mult)
        history   == AppendBounded(ticker.history, PricePoint(current_time, price, volume))
    IN  [current_price |-> price,
         change_pct    |-> ChangePct(price, history),
         history       |-> history]

update_prices(tk, current_time, system_risk, draws) ==
    [sym \in Symbols |-> UpdateTicker(tk[sym], sym, current_time, system_risk, draws[sym])]

----------------------------------------------------------------------------
(* IntelligenceEngine *)

\* The record of the call just made (op), its arguments and the values of
\* its local variables that the state does not otherwise keep.
Call(op, now, total_risk, prev_state, prev_regime, draws) ==
    [op |-> op, now |-> now, total_risk |-> total_risk,
     prev_state |-> prev_state, prev_regime |-> prev_regime, draws |-> draws]

NoDraws == [sym \in Symbols |-> DefaultDraw]

\* Objects no list refers to any more are reclaimed.
Reachable(heap, ledger, snap) ==
    [id \in (Range(ledger) \cup Range(snap.active_events)) |-> heap[id]]

\* A fresh object identity
NewId(heap) == CHOOSE id \in 1..(Cardinality(DOMAIN heap) + 1) : id \notin DOMAIN heap

Init ==
    /\ objs = [id \in {} |-> 0]
    /\ events = <<>>
    /\ current_state = "STABLE"
    /\ current_regime = "LOW_VOL"
    /\ tickers = MarketSimulatorInit
    /\ snapshot = NoSnapshot
    /\ ticks = 0
    /\ last = Call("init", 0, 0, "STABLE", "LOW_VOL", NoDraws)

\* Relevance clamped to the documented range 0.0 to 10.0
RelevanceClamped(event) ==
    IF event.base_impact > 10000 THEN 10000
    ELSE IF event.base_impact < 0 THEN 0 ELSE event.base_impact

\* relevance = event.base_impact * 1.0
Relevance(event) == event.base_impact

\* ingest(event)
Ingest(event, cap) ==
    /\ Len(events) < cap
    /\ LET id == NewId(objs)
           processed == ProcessedEvent(event, Relevance(event))
       IN  /\ objs' = [i \in DOMAIN objs \cup {id} |->
                          IF i = id THEN processed ELSE objs[i]]
           /\ events' = Append(events, id)
    /\ last' = Call("ingest", event.timestamp, 0, current_state, current_regime, NoDraws)
    /\ UNCHANGED <<current_state, current_regime, tickers, snapshot, ticks>>

\* NewWeight with the sign of the exponent reversed (growth instead of decay)
NewWeightGrowing(p_event, current_time) ==
    DecayedWeight(p_event.relevance_score,
                  p_event.original_event.timestamp - current_time)

\* NewWeight taken from the weight the event carries now (compounding decay)
\* instead of from its relevance_score
NewWeightCompounded(p_event, current_time) ==
    DecayedWeight(p_event.current_weight,
                  current_time - p_event.original_event.timestamp)

\* new_weight of one held event at current_time
NewWeight(p_event, current_time) ==
    DecayedWeight(p_event.relevance_score,
                  current_time - p_event.original_event.timestamp)

\* Survives with the floor itself kept (>= in place of >)
SurvivesAtFloor(new_weight) == new_weight >= 500

\* Survives with nothing ever dropped
SurvivesAll(new_weight) == TRUE

\* if new_weight > 0.5: active_events.append(p_event)
Survives(new_weight) == new_weight > 500

RECURSIVE ActiveEvents(_, _, _)
\* the sub-list of ledger whose (already updated) objects survive, in order
ActiveEvents(ledger, heap, i) ==
    IF i > Len(ledger) THEN <<>>
    ELSE (IF Survives(heap[ledger[i]].current_weight) THEN <<ledger[i]>> ELSE <<>>)
         \o ActiveEvents(ledger, heap, i + 1)

\* apply_decay(current_time) as a function of the ledger and the heap: the
\* ledger and the heap as the call leaves them (before reclamation)
apply_decay(ledger, heap, current_time) ==
    LET held == Range(ledger)
        decayed == [id \in DOMAIN heap |->
                       IF id \in held
                       THEN [heap[id] EXCEPT !.current_weight = NewWeight(heap[id], current_time)]
                       ELSE heap[id]]
    IN  [events |-> ActiveEvents(ledger, decayed, 1), objs |-> decayed]

\* the times of the calls compared: up to four hours on
DecayTimes == 0..4

\* apply_decay(current_time)
ApplyDecay(current_time) ==
    LET held == Range(events)
        heap == [id \in DOMAIN objs |->
                    IF id \in held
                    THEN [objs[id] EXCEPT !.current_weight = NewWeight(objs[id], current_time)]
                    ELSE objs[id]]
        active_events == ActiveEvents(events, heap, 1)
    IN  /\ events' = active_events
        /\ objs' = Reachable(heap, active_events, snapshot)
        /\ last' = Call("apply_decay", current_time, 0, current_state, current_regime, NoDraws)
        /\ UNCHANGED <<current_state, current_regime, tickers, snapshot, ticks>>


\* TotalRisk over the initial weights (relevance_score) instead of the current ones
TotalRiskUndecayed(ledger, heap) ==
    SumSeq([i \in 1..Len(ledger) |-> heap[ledger[i]].relevance_score])

\* total_risk = sum(e.current_weight for e in self.events)
TotalRisk(ledger, heap) ==
    SumSeq([i \in 1..Len(ledger) |-> heap[ledger[i]].current_weight])

\* Classify with the dead zone resetting to STABLE / LOW_VOL
ClassifyReset(total_risk, state, regime) ==
    IF total_risk > 25000 THEN [state |-> "CRASH", regime |-> "HIGH_VOL"]
    ELSE IF total_risk > 15000 THEN [state |-> "HIGH_VOLATILITY", regime |-> "HIGH_VOL"]
    ELSE [state |-> "STABLE", regime |-> "LOW_VOL"]

\* Classify with CRASH from 25.0 on (>= in place of >)
ClassifyCrashAt25(total_risk, state, regime) ==
    IF total_risk >= 25000 THEN [state |-> "CRASH", regime |-> "HIGH_VOL"]
    ELSE IF total_risk > 15000 THEN [state |-> "HIGH_VOLATILITY", regime |-> "HIGH_VOL"]
    ELSE IF total_risk < 5000 THEN [state |-> "STABLE", regime |-> "LOW_VOL"]
    ELSE [state |-> state, regime |-> regime]

\* Classify with CRASH paired with the regime TRENDING_DOWN
ClassifyTrendingDown(total_risk, state, regime) ==
    IF total_risk > 25000 THEN [state |-> "CRASH", regime |-> "TRENDING_DOWN"]
    ELSE IF total_risk > 15000 THEN [state |-> "HIGH_VOLATILITY", regime |-> "HIGH_VOL"]
    ELSE IF total_risk < 5000 THEN [state |-> "STABLE", regime |-> "LOW_VOL"]
    ELSE [state |-> state, regime |-> regime]

\* the if / elif chain of detect_state; no branch is taken for 5.0 <= risk <= 15.0
Classify(total_risk, state, regime) ==
    IF total_risk > 25000 THEN [state |-> "CRASH", regime |-> "HIGH_VOL"]
    ELSE IF total_risk > 15000 THEN [state |-> "HIGH_VOLATILITY", regime |-> "HIGH_VOL"]
    ELSE IF total_risk < 5000 THEN [state |-> "STABLE", regime |-> "LOW_VOL"]
    ELSE [state |-> state, regime |-> regime]

RECURSIVE InsertBeforeTies(_, _, _)
\* InsertByWeight with id put in front of the elements of equal weight
InsertBeforeTies(sorted, id, heap) ==
    IF sorted = <<>> THEN <<id>>
    ELSE IF heap[Head(sorted)].current_weight > heap[id].current_weight
         THEN <<Head(sorted)>> \o InsertBeforeTies(Tail(sorted), id, heap)
         ELSE <<id>> \o sorted

RECURSIVE InsertByWeight(_, _, _)
\* id goes behind every element whose weight is at least its own (stable)
InsertByWeight(sorted, id, heap) ==
    IF sorted = <<>> THEN <<id>>
    ELSE IF heap[Head(sorted)].current_weight >= heap[id].current_weight
         THEN <<Head(sorted)>> \o InsertByWeight(Tail(sorted), id, heap)
         ELSE <<id>> \o sorted

RECURSIVE SortedByWeight(_, _)
\* sorted(self.events, key=lambda x: x.current_weight, reverse=True): a new
\* list of the same objects; Python's sort is stable, also under reverse=True
SortedByWeight(ledger, heap) ==
    IF ledger = <<>> THEN <<>>
    ELSE InsertByWeight(SortedByWeight(SubSeq(ledger, 1, Len(ledger) - 1), heap),
                        ledger[Len(ledger)], heap)

TopK == 5

\* sorted(...)[:5]
TopEvents(ledger, heap) ==
    LET sorted == SortedByWeight(ledger, heap)
    IN  SubSeq(sorted, 1, IF Len(sorted) < TopK THEN Len(sorted) ELSE TopK)

\* round(total_risk, 2)
RiskScore(total_risk) == RoundHalfEven(total_risk, 10)

\* detect_state(current_time), with the random draws update_prices makes
DetectState(current_time, draws, cap) ==
    /\ ticks < cap
    /\ LET total_risk == TotalRisk(events, objs)
           c          == Classify(total_risk, current_state, current_regime)
           snap       == [timestamp     |-> current_time,
                          state         |-> c.state,
                          risk_score    |-> RiskScore(total_risk),
                          active_events |-> TopEvents(events, objs),
                          regime        |-> c.regime]
       IN  /\ current_state' = c.state
           /\ current_regime' = c.regime
           /\ tickers' = update_prices(tickers, current_time, total_risk, draws)
           /\ snapshot' = snap
           /\ objs' = Reachable(objs, events, snap)
           /\ last' = Call("detect_state", current_time, total_risk,
                           current_state, current_regime, draws)
    /\ ticks' = ticks + 1
    /\ UNCHANGED events

----------------------------------------------------------------------------
(* Spec: any caller, any order of ingest / apply_decay / detect_state *)

IngestAny == \E e \in MarketEvents : Ingest(e, MaxEvents)

ApplyDecayAny == \E t \in Times : ApplyDecay(t)

DetectStateAny == \E t \in DetectTimes : DetectState(t, NoDraws, MaxTicks)

Next == IngestAny \/ ApplyDecayAny \/ DetectStateAny

Spec == Init /\ [][Next]_vars

----------------------------------------------------------------------------
(* SimSpec: a long run of ticks, enough for the histories to fill and slide. *)
(* One event, ingested before the varied ticks are over, sets the risk level *)
(* of the whole run.                                                         *)

\* 4.999, 5.0, 15.0, 15.001, 25.0 and 25.001
SimImpacts == {4999, 5000, 15000, 15001, 25000, 25001}

SimEvents == [timestamp : {0}, base_impact : SimImpacts]

SimIngest == ticks < MaxVaried /\ \E e \in SimEvents : Ingest(e, 1)

SimDetectState == \E d \in DrawVectors(ticks) : DetectState(ticks + 1, d, SimTicks)

SimNext == SimIngest \/ SimDetectState

SimSpec == Init /\ [][SimNext]_vars

----------------------------------------------------------------------------
(* TopSpec: ledgers longer than the five events a snapshot lists. *)

TopEventInputs == [timestamp : {0, 1}, base_impact : {5000, 10000}]

TopIngest == \E e \in TopEventInputs : Ingest(e, MaxLedger)

TopApplyDecay == ApplyDecay(1)

TopDetectState == DetectState(1, NoDraws, 1)

TopNext == TopIngest \/ TopApplyDecay \/ TopDetectState

TopSpec == Init /\ [][TopNext]_vars

----------------------------------------------------------------------------
(* ClockSpec: a driver in the manner of main.py's loop. It passes the time   *)
(* of a clock that never runs backwards to apply_decay and detect_state,     *)
(* ingests only events that are due (timestamp not after the clock), and     *)
(* advances the clock, here by one hour, after each detect_state. ticks      *)
(* counts the detect_state calls and so tells the clock's time.              *)

ClockImpacts == {5000, 10000}

\* if event.timestamp <= current_time: engine.ingest(event)
ClockIngest ==
    \E e \in [timestamp : 0..ticks, base_impact : ClockImpacts] : Ingest(e, MaxHeld)

ClockApplyDecay == ApplyDecay(ticks)

ClockDetectState == DetectState(ticks, NoDraws, MaxClock)

ClockNext == ClockIngest \/ ClockApplyDecay \/ ClockDetectState

ClockSpec == Init /\ [][ClockNext]_vars

----------------------------------------------------------------------------
(* PureSpec: the static functions of TechnicalAnalysis and PerformanceEngine. *)
(* They read and write no engine state. The initial states hold, in last,     *)
(* the arguments of the call about to be made (op = "args", fn the function); *)
(* the one step of a behaviour makes the call and puts its result in last.    *)

engine_vars == <<objs, events, current_state, current_regime, tickers, snapshot, ticks>>

\* the engine as constructed, before any call
EngineConstructed ==
    /\ objs = [id \in {} |-> 0]
    /\ events = <<>>
    /\ current_state = "STABLE"
    /\ current_regime = "LOW_VOL"
    /\ tickers = MarketSimulatorInit
    /\ snapshot = NoSnapshot
    /\ ticks = 0

Pending(fn) == last.op = "args" /\ last.fn = fn

BatchWeights == {5000, 10000}
BatchTimes == {0, 1, 2}
BatchNow == {1, 2}

\* weights and timestamps: two arrays of one length; current_ts
DecayBatchArgs ==
    UNION {{[op |-> "args", fn |-> "calculate_decay_batch",
             weights |-> w, timestamps |-> t, current_ts |-> now] :
                w \in [1..n -> BatchWeights], t \in [1..n -> BatchTimes], now \in BatchNow} :
           n \in 0..MaxBatch}

\* calculate_decay_batch with every element aged from the first timestamp
calculate_decay_batch_first_ts(weights, timestamps, current_ts) ==
    [i \in 1..Len(weights) |-> DecayedWeight(weights[i], current_ts - timestamps[1])]

\* dt_hours = (current_ts - timestamps) / 3600.0
\* new_weights = weights * np.exp(-decay_rate * dt_hours), element by element
\* (timestamps are held in hours here, as everywhere in this module)
calculate_decay_batch(weights, timestamps, current_ts) ==
    [i \in 1..Len(weights) |-> DecayedWeight(weights[i], current_ts - timestamps[i])]

CalculateDecayBatch ==
    /\ Pending("calculate_decay_batch")
    /\ last' = [op |-> "calculate_decay_batch", weights |-> last.weights,
                timestamps |-> last.timestamps, current_ts |-> last.current_ts,
                result |-> calculate_decay_batch(last.weights, last.timestamps,
                                                 last.current_ts)]
    /\ UNCHANGED engine_vars

\* window: int = 20
DefaultWindow == 20

\* num_std: float = 2.0
NumStd == 2

\* if i < window - 1 (i counts from 0): not enough data
PassThrough(i, window) == i < window - 1

\* prices[i-window+1 : i+1] for i counting from 0, as a sequence
SliceData(prices, i, window) ==
    SubSeq(prices, IF i - window + 2 < 1 THEN 1 ELSE i - window + 2, i + 1)

\* avg = sum(slice_data) / window, in hundredths of a cent
Avg(slice_data, window) == (100 * SumSeq(slice_data)) \div window

\* sum((x - avg) ** 2 for x in slice_data), in squared hundredths of a cent
SquaredDeviations(slice_data, avg) ==
    SumSeq([j \in 1..Len(slice_data) |->
               (100 * slice_data[j] - avg) * (100 * slice_data[j] - avg)])

\* std_dev * num_std with std_dev = math.sqrt(variance) and
\* variance = sum(...) / window; rounded down to a hundredth of a cent
BandWidth(slice_data, avg, window) ==
    Isqrt((NumStd * NumStd * SquaredDeviations(slice_data, avg)) \div window)

\* calculate_bollinger_bands with 0.0 in place of the raw price at the
\* indices that lack a full window
calculate_bollinger_bands_zero_filled(history, window) ==
    LET prices == [i \in 1..Len(history) |-> history[i].price]
        Band(i) ==
            IF PassThrough(i, window)
            THEN [upper |-> 0, middle |-> 0, lower |-> 0]
            ELSE LET slice_data == SliceData(prices, i, window)
                     avg == Avg(slice_data, window)
                     width == BandWidth(slice_data, avg, window)
                 IN  [upper |-> avg + width, middle |-> avg, lower |-> avg - width]
    IN  [upper  |-> [i \in 1..Len(prices) |-> Band(i - 1).upper],
         middle |-> [i \in 1..Len(prices) |-> Band(i - 1).middle],
         lower  |-> [i \in 1..Len(prices) |-> Band(i - 1).lower]]

\* calculate_bollinger_bands(history, window): three lists
calculate_bollinger_bands(history, window) ==
    LET prices == [i \in 1..Len(history) |-> history[i].price]
        Band(i) ==
            IF PassThrough(i, window)
            THEN [upper |-> 100 * prices[i + 1], middle |-> 100 * prices[i + 1],
                  lower |-> 100 * prices[i + 1]]
            ELSE LET slice_data == SliceData(prices, i, window)
                     avg == Avg(slice_data, window)
                     width == BandWidth(slice_data, avg, window)
                 IN  [upper |-> avg + width, middle |-> avg, lower |-> avg - width]
    IN  [upper  |-> [i \in 1..Len(prices) |-> Band(i - 1).upper],
         middle |-> [i \in 1..Len(prices) |-> Band(i - 1).middle],
         lower  |-> [i \in 1..Len(prices) |-> Band(i - 1).lower]]

\* Price histories: n points of BasePrice, one per hour, the point at
\* position k (if any) moved by delta
BasePrice == 10000

Deltas == {-40, 40}

History(n, k, delta) ==
    [i \in 1..n |-> PricePoint(i - 1, IF i = k THEN BasePrice + delta ELSE BasePrice, 0)]

\* n points at the price 0.0, the price a shock of -100 % leaves behind
ZeroHistory(n) == [i \in 1..n |-> PricePoint(i - 1, 0, 0)]

Histories ==
    {History(n, k, delta) : n \in 0..MaxHist, k \in 0..MaxHist, delta \in Deltas}
        \cup {ZeroHistory(n) : n \in 1..MaxHist}

Windows == {3, DefaultWindow}

BandsArgs ==
    {[op |-> "args", fn |-> "calculate_bollinger_bands", history |-> h, window |-> w] :
        h \in Histories, w \in Windows}

CalculateBollingerBands ==
    /\ Pending("calculate_bollinger_bands")
    /\ last' = [op |-> "calculate_bollinger_bands", history |-> last.history,
                window |-> last.window,
                result |-> calculate_bollinger_bands(last.history, last.window)]
    /\ UNCHANGED engine_vars

\* series.rolling(window).std() * num_std: pandas' rolling std is the sample
\* standard deviation (ddof = 1, dividing by window - 1)
RollingWidth(slice_data, avg, window) ==
    Isqrt((NumStd * NumStd * SquaredDeviations(slice_data, avg)) \div (window - 1))

\* calculate_bollinger_bands_vectorized(prices, window): three arrays.
\* Shorter input than the window gives three empty arrays. Otherwise the
\* rolling mean and std are NaN at the first window - 1 indices, and
\* fillna(method='bfill') puts there the first value that is not NaN, the one
\* at index window - 1.
calculate_bollinger_bands_vectorized(prices, window) ==
    IF Len(prices) = 0 \/ Len(prices) < window
    THEN [upper |-> <<>>, middle |-> <<>>, lower |-> <<>>]
    ELSE LET Rolling(i) ==
                 LET slice_data == SliceData(prices, i, window)
                     avg == Avg(slice_data, window)
                     width == RollingWidth(slice_data, avg, window)
                 IN  [upper |-> avg + width, middle |-> avg, lower |-> avg - width]
             Filled(i) == IF i < window - 1 THEN Rolling(window - 1) ELSE Rolling(i)
         IN  [upper  |-> [i \in 1..Len(prices) |-> Filled(i - 1).upper],
              middle |-> [i \in 1..Len(prices) |-> Filled(i - 1).middle],
              lower  |-> [i \in 1..Len(prices) |-> Filled(i - 1).lower]]

\* the price list of a history: [p.price for p in history]
Prices(history) == [i \in 1..Len(history) |-> history[i].price]

VectorizedArgs ==
    {[op |-> "args", fn |-> "calculate_bollinger_bands_vectorized",
      prices |-> Prices(h), window |-> w] : h \in Histories, w \in Windows}

CalculateBollingerBandsVectorized ==
    /\ Pending("calculate_bollinger_bands_vectorized")
    /\ last' = [op |-> "calculate_bollinger_bands_vectorized", prices |-> last.prices,
                window |-> last.window,
                result |-> calculate_bollinger_bands_vectorized(last.prices, last.window)]
    /\ UNCHANGED engine_vars

\* batch_update_prices: bias by system_risk
BatchBias(system_risk) ==
    IF system_risk > 25000 THEN -200
    ELSE IF system_risk > 15000 THEN -50
    ELSE IF system_risk < 5000 THEN 10
    ELSE 0

\* batch_update_prices: vol_mult by system_risk
BatchVolMult(system_risk) ==
    IF system_risk > 25000 THEN 40
    ELSE IF system_risk > 15000 THEN 20
    ELSE IF system_risk < 5000 THEN 8
    ELSE 10

\* batch_update_prices(current_prices, volatilities, system_risk), with z the
\* standard normal deviates behind np.random.normal(0, volatilities * vol_mult);
\* the arrays are indexed by instrument
batch_update_prices(current_prices, volatilities, system_risk, z) ==
    LET bias == BatchBias(system_risk)
        vol_mult == BatchVolMult(system_risk)
        shocks == [sym \in DOMAIN current_prices |->
                      (z[sym] * volatilities[sym] * vol_mult) \div 10]
        pct_changes == [sym \in DOMAIN current_prices |-> shocks[sym] + bias]
    IN  [sym \in DOMAIN current_prices |->
            NewPrice(current_prices[sym], pct_changes[sym])]

\* 0.0, 5.0, 10.0, 15.001, 25.0 and 25.001
BatchRisks == {0, 5000, 10000, 15001, 25000, 25001}

\* the universe at its starting prices, each instrument with its base
\* volatility, and one draw for all instruments
BatchPricesArgs ==
    {[op |-> "args", fn |-> "batch_update_prices",
      current_prices |-> [sym \in Symbols |-> StartPrice(sym)],
      volatilities |-> [sym \in Symbols |-> BaseVol(sym)],
      system_risk |-> risk,
      draws |-> [sym \in Symbols |-> d]] : risk \in BatchRisks, d \in RandomDraws}

BatchUpdatePrices ==
    /\ Pending("batch_update_prices")
    /\ last' = [op |-> "batch_update_prices", current_prices |-> last.current_prices,
                volatilities |-> last.volatilities, system_risk |-> last.system_risk,
                draws |-> last.draws,
                result |-> batch_update_prices(last.current_prices, last.volatilities,
                              last.system_risk,
                              [sym \in Symbols |-> last.draws[sym].z])]
    /\ UNCHANGED engine_vars

\* if len(ticker.history) < 20
MinHistory == 20

\* the result returned without looking at the prices
InsufficientData == [depth |-> "LOW", advice |-> "INSUFFICIENT DATA", bid |-> 0]

\* Classification with the band values themselves counted as outside
ClassificationInclusive(current_price, upper_curr, lower_curr) ==
    IF current_price >= upper_curr
    THEN [depth |-> "CRITICAL (OVERBOUGHT)", advice |-> "SELL / HEDGE",
          bid |-> lower_curr]
    ELSE IF current_price <= lower_curr
    THEN [depth |-> "OPPORTUNITY (OVERSOLD)", advice |-> "ACCUMULATE",
          bid |-> (current_price * 98) \div 100]
    ELSE [depth |-> "NEUTRAL", advice |-> "HOLD", bid |-> lower_curr]

\* the if / elif / else of analyze_risk_depth; all arguments in hundredths
\* of a cent
Classification(current_price, upper_curr, lower_curr) ==
    IF current_price > upper_curr
    THEN [depth |-> "CRITICAL (OVERBOUGHT)", advice |-> "SELL / HEDGE",
          bid |-> lower_curr]
    ELSE IF current_price < lower_curr
    THEN [depth |-> "OPPORTUNITY (OVERSOLD)", advice |-> "ACCUMULATE",
          bid |-> (current_price * 98) \div 100]
    ELSE [depth |-> "NEUTRAL", advice |-> "HOLD", bid |-> lower_curr]

\* analyze_risk_depth(ticker); volatility in ten-thousandths. The division
\* by m[-1] raises ZeroDivisionError when the middle band is 0.
analyze_risk_depth(ticker) ==
    IF Len(ticker.history) < MinHistory THEN InsufficientData
    ELSE LET bands == calculate_bollinger_bands(ticker.history, DefaultWindow)
             n == Len(ticker.history)
             upper_curr == bands.upper[n]
             lower_curr == bands.lower[n]
             c == Classification(100 * ticker.current_price, upper_curr, lower_curr)
         IN  IF bands.middle[n] = 0 THEN [raised |-> "ZeroDivisionError"]
             ELSE [depth |-> c.depth, advice |-> c.advice, bid |-> c.bid,
                   volatility |-> ((upper_curr - lower_curr) * 10000) \div bands.middle[n]]

\* a ticker as update_prices leaves it: current_price is the newest point's
\* price (the base price while the history is empty)
TickerOf(history) ==
    [Ticker(IF history = <<>> THEN BasePrice ELSE history[Len(history)].price)
        EXCEPT !.history = history]

RiskDepthArgs ==
    {[op |-> "args", fn |-> "analyze_risk_depth", ticker |-> TickerOf(h)] : h \in Histories}

AnalyzeRiskDepth ==
    /\ Pending("analyze_risk_depth")
    /\ last' = [op |-> "analyze_risk_depth", ticker |-> last.ticker,
                result |-> analyze_risk_depth(last.ticker)]
    /\ UNCHANGED engine_vars

\* batch_update_tankers: positions and distances in thousandths of a degree,
\* headings in hundredths of a degree; status 1 is MOVING.

Moving == 1

\* distances = np.maximum(np.sqrt(dx**2 + dy**2), 0.001)
ClampedDistance(dx, dy) ==
    LET distance == Isqrt(dx * dx + dy * dy)
    IN  IF distance > 1 THEN distance ELSE 1

\* arrived_mask = distances < 2.0
Arrived(distance) == distance < 2000

\* ActiveMask without the status: every tanker that has not arrived moves
ActiveMaskAnyStatus(status, arrived) == ~arrived

\* active_mask = moving_mask & (~arrived_mask)
ActiveMask(status, arrived) == (status = Moving) /\ ~arrived

\* (d / distances) * speed; numpy gives nan or inf for a zero divisor
Move(d, distance, speed) ==
    IF distance = 0 THEN [nan |-> TRUE] ELSE (d * speed) \div distance

\* np.degrees(np.arctan2(dx, dy)) for the directions of TankerOffsets
Heading(dx, dy) ==
    CASE dx = 0 /\ dy >= 0 -> 0
      [] dx = 0 /\ dy < 0 -> 18000
      [] dy > 0 /\ 4 * dx = 3 * dy -> 3687
      [] dy > 0 /\ 4 * dx = -3 * dy -> -3687

\* The four arrays returned, the clamped distances, and the two position
\* arrays given as the call leaves them: new_lats and new_lons are copies,
\* and the += on them does not reach latitudes and longitudes.
batch_update_tankers(latitudes, longitudes, dest_lats, dest_lons, statuses, speed_factor) ==
    LET idx == 1..Len(latitudes)
        dy == [i \in idx |-> dest_lats[i] - latitudes[i]]
        dx == [i \in idx |-> dest_lons[i] - longitudes[i]]
        distances == [i \in idx |-> ClampedDistance(dx[i], dy[i])]
        arrived_mask == [i \in idx |-> Arrived(distances[i])]
        speed == 800 * speed_factor
        move_lat == [i \in idx |-> Move(dy[i], distances[i], speed)]
        move_lon == [i \in idx |-> Move(dx[i], distances[i], speed)]
        active_mask == [i \in idx |-> ActiveMask(statuses[i], arrived_mask[i])]
    IN  [new_lats |-> [i \in idx |-> IF active_mask[i] THEN latitudes[i] + move_lat[i]
                                     ELSE latitudes[i]],
         new_lons |-> [i \in idx |-> IF active_mask[i] THEN longitudes[i] + move_lon[i]
                                     ELSE longitudes[i]],
         new_headings |-> [i \in idx |-> IF active_mask[i] THEN Heading(dx[i], dy[i]) ELSE 0],
         arrived_mask |-> arrived_mask,
         distances |-> distances,
         latitudes |-> latitudes,
         longitudes |-> longitudes]

\* (dy, dx) from a tanker to its destination: distances 0, 1.0, 2.0 and 5.0
TankerOffsets ==
    {<<0, 0>>, <<800, 600>>, <<1600, 1200>>, <<4000, 3000>>, <<4000, -3000>>,
     <<2000, 0>>, <<-5000, 0>>}

\* statuses: 0 (not moving) and 1 (MOVING)
Tankers ==
    {[lat |-> 10000, lon |-> 20000, dest_lat |-> 10000 + o[1], dest_lon |-> 20000 + o[2],
      status |-> s] : o \in TankerOffsets, s \in {0, Moving}}

Fleets == UNION {[1..n -> Tankers] : n \in 1..MaxFleet}

SpeedFactors == {1, 2}

TankerArgs ==
    {[op |-> "args", fn |-> "batch_update_tankers",
      latitudes |-> [i \in DOMAIN f |-> f[i].lat],
      longitudes |-> [i \in DOMAIN f |-> f[i].lon],
      dest_lats |-> [i \in DOMAIN f |-> f[i].dest_lat],
      dest_lons |-> [i \in DOMAIN f |-> f[i].dest_lon],
      statuses |-> [i \in DOMAIN f |-> f[i].status],
      speed_factor |-> sf] : f \in Fleets, sf \in SpeedFactors}

BatchUpdateTankers ==
    /\ Pending("batch_update_tankers")
    /\ last' = [op |-> "batch_update_tankers",
                latitudes |-> last.latitudes, longitudes |-> last.longitudes,
                dest_lats |-> last.dest_lats, dest_lons |-> last.dest_lons,
                statuses |-> last.statuses, speed_factor |-> last.speed_factor,
                result |-> batch_update_tankers(last.latitudes, last.longitudes,
                              last.dest_lats, last.dest_lons, last.statuses,
                              last.speed_factor)]
    /\ UNCHANGED engine_vars

PureArgs ==
    DecayBatchArgs \cup BandsArgs \cup VectorizedArgs \cup BatchPricesArgs
        \cup RiskDepthArgs \cup TankerArgs

PureInit == EngineConstructed /\ last \in PureArgs

PureNext ==
    \/ CalculateDecayBatch
    \/ CalculateBollingerBands
    \/ CalculateBollingerBandsVectorized
    \/ BatchUpdatePrices
    \/ AnalyzeRiskDepth
    \/ BatchUpdateTankers

PureSpec == PureInit /\ [][PureNext]_vars

----------------------------------------------------------------------------
(* QuerySpec: the engine's accessors and the server's read commands, called  *)
(* between the engine's operations. last holds the command just served (the  *)
(* server's LAST_COMMAND) and what it returned.                              *)

\* what dict.get returns for a missing key
None == [none |-> TRUE]

\* the symbols asked for: the universe, a symbol outside it, the empty string
QuerySymbols == Symbols \cup {"TSLA", ""}

\* get_ticker in the manner of dict.setdefault: a missing symbol is entered
\* with a zero-valued Ticker, which is returned
get_ticker_creating(tk, symbol) ==
    IF symbol \in DOMAIN tk THEN [tickers |-> tk, value |-> tk[symbol]]
    ELSE [tickers |-> [sym \in DOMAIN tk \cup {symbol} |->
                          IF sym = symbol THEN Ticker(0) ELSE tk[sym]],
          value |-> Ticker(0)]

\* get_ticker returning a zero-valued Ticker for a missing symbol
get_ticker_zero(tk, symbol) ==
    [tickers |-> tk, value |-> IF symbol \in DOMAIN tk THEN tk[symbol] ELSE Ticker(0)]

\* return self.simulator.tickers.get(symbol): the dict as the call leaves it
\* and the value returned
get_ticker(tk, symbol) ==
    [tickers |-> tk, value |-> IF symbol \in DOMAIN tk THEN tk[symbol] ELSE None]

\* get_all_tickers(): one entry per ticker, with its price and change
get_all_tickers(tk) ==
    [sym \in DOMAIN tk |->
        [symbol |-> sym, price |-> tk[sym].current_price, change |-> tk[sym].change_pct]]

GetTicker(symbol) ==
    LET r == get_ticker(tickers, symbol)
    IN  /\ tickers' = r.tickers
        /\ last' = [op |-> "get_ticker", symbol |-> symbol, result |-> r.value]
        /\ UNCHANGED <<objs, events, current_state, current_regime, snapshot, ticks>>

GetAllTickers ==
    /\ last' = [op |-> "get_all_tickers", result |-> get_all_tickers(tickers)]
    /\ UNCHANGED engine_vars

\* float(f"{ticker.change_pct:.2f}"), in hundredths of a percent
FormatChange(change_pct) == RoundHalfEven(change_pct.num * 10000, change_pct.den)

\* process_command, cmd = "QUOTE <symbol>"
Quote(symbol) ==
    LET r == get_ticker(tickers, symbol)
        ticker == r.value
    IN  /\ tickers' = r.tickers
        /\ last' = [op |-> "QUOTE", symbol |-> symbol,
                    result |-> IF ticker # None
                               THEN [type |-> "QUOTE", symbol |-> symbol,
                                     price |-> ticker.current_price,
                                     change |-> FormatChange(ticker.change_pct),
                                     history |-> ticker.history]
                               ELSE [type |-> "ERROR", content |-> "Symbol Not Found."]]
        /\ UNCHANGED <<objs, events, current_state, current_regime, snapshot, ticks>>

\* process_command, cmd = "TODAY": one row per held event, its ID the
\* position in engine.events counted from 0
Today ==
    /\ last' = [op |-> "TODAY",
                result |-> [type |-> "TABLE",
                            data |-> [i \in 1..Len(events) |->
                                        [ID |-> i - 1, event |-> events[i],
                                         Relevance |-> RoundHalfEven(
                                             objs[events[i]].current_weight, 10)]]]]
    /\ UNCHANGED engine_vars

\* does list[n] raise IndexError? Python takes n from -len to len - 1
IndexError(list, n) == n < -Len(list) \/ n >= Len(list)

\* list[n] in Python: a negative n counts from the end
Subscript(list, n) == IF n >= 0 THEN list[n + 1] ELSE list[Len(list) + n + 1]

\* process_command, cmd = "EVENT <n>": evt_id = int(...),
\* target_event = engine.events[evt_id], the analyst's explanation of it;
\* any exception gives the error
EventCommand(n) ==
    /\ last' = [op |-> "EVENT", evt_id |-> n,
                result |-> IF IndexError(events, n)
                           THEN [type |-> "ERROR", content |-> "Event ID Not Found."]
                           ELSE [type |-> "TEXT", evt_id |-> n,
                                 event |-> Subscript(events, n)]]
    /\ UNCHANGED engine_vars

\* the integers asked for with EVENT
EventIds == (-(MaxListed + 1))..(MaxListed + 1)

QueryEvent == \E n \in EventIds : EventCommand(n)

QueryImpacts == {5000, 10000}

QueryIngest ==
    \E e \in [timestamp : {0}, base_impact : QueryImpacts] : Ingest(e, MaxListed)

QueryApplyDecay == ApplyDecay(1)

QueryDetectState == DetectState(1, NoDraws, 1)

QueryGetTicker == \E symbol \in QuerySymbols : GetTicker(symbol)

QueryQuote == \E symbol \in QuerySymbols : Quote(symbol)

QueryNext ==
    \/ QueryIngest
    \/ QueryApplyDecay
    \/ QueryDetectState
    \/ QueryGetTicker
    \/ GetAllTickers
    \/ QueryQuote
    \/ Today
    \/ QueryEvent

QuerySpec == Init /\ [][QueryNext]_vars

----------------------------------------------------------------------------
(* ThreadSpec: two request threads of the server on the one engine. The     *)
(* handlers are plain functions, which the framework runs on a thread pool, *)
(* and neither they nor the engine take a lock, so a thread can be          *)
(* switched out between any two bytecodes. apply_decay is taken in two      *)
(* steps: its loop, which fills the local list active_events, and the       *)
(* assignment self.events = active_events. While a call is between the two, *)
(* last holds its frame (now, active_events) and, in `during`, the objects  *)
(* that the other thread has ingested in the meantime. list.append is one   *)
(* atomic step.                                                             *)

InProgress == last.op = "apply_decay:loop"

ThreadImpacts == {5000, 10000}

ThreadEvents == [timestamp : {0}, base_impact : ThreadImpacts]

\* a whole ingest call while no other call is in progress
ThreadIngest ==
    /\ ~InProgress
    /\ \E e \in ThreadEvents : Ingest(e, MaxThreaded)

\* the for loop of apply_decay, up to the exhaustion of the iterator
ApplyDecayLoop(current_time) ==
    /\ ~InProgress
    /\ LET held == Range(events)
           heap == [id \in DOMAIN objs |->
                       IF id \in held
                       THEN [objs[id] EXCEPT !.current_weight = NewWeight(objs[id], current_time)]
                       ELSE objs[id]]
       IN  /\ objs' = heap
           /\ last' = [op |-> "apply_decay:loop", now |-> current_time,
                       active_events |-> ActiveEvents(events, heap, 1),
                       during |-> <<>>]
    /\ UNCHANGED <<events, current_state, current_regime, tickers, snapshot, ticks>>

\* ingest by the other thread, between the loop and the assignment
IngestDuring(event) ==
    /\ InProgress
    /\ Len(events) < MaxThreaded
    /\ LET id == NewId(objs)
           processed == ProcessedEvent(event, Relevance(event))
       IN  /\ objs' = [i \in DOMAIN objs \cup {id} |->
                          IF i = id THEN processed ELSE objs[i]]
           /\ events' = Append(events, id)
           /\ last' = [last EXCEPT !.during = Append(@, id)]
    /\ UNCHANGED <<current_state, current_regime, tickers, snapshot, ticks>>

\* self.events = active_events
ApplyDecayAssign ==
    /\ InProgress
    /\ events' = last.active_events
    /\ objs' = Reachable(objs, last.active_events, snapshot)
    /\ last' = Call("apply_decay", last.now, 0, current_state, current_regime, NoDraws)
    /\ UNCHANGED <<current_state, current_regime, tickers, snapshot, ticks>>

ThreadApplyDecayLoop == \E t \in Times : ApplyDecayLoop(t)

ThreadIngestDuring == \E e \in ThreadEvents : IngestDuring(e)

ThreadNext ==
    \/ ThreadIngest
    \/ ThreadApplyDecayLoop
    \/ ThreadIngestDuring
    \/ ApplyDecayAssign

ThreadSpec == Init /\ [][ThreadNext]_vars

----------------------------------------------------------------------------
(* ServerSpec: the server's tick, step_simulation. The server builds its    *)
(* engine with decay_rate = 0.2 and advances its clock by 15 minutes per    *)
(* tick, so in this specification time counts quarter hours and ticks is    *)
(* the clock. The pre-roll at start-up (96 ticks without ingest) has        *)
(* emptied the ledger: both seeded events, 2.0 and 7.5, are below 0.5 after *)
(* 55 quarter hours, and the state is STABLE / LOW_VOL; the prices drawn    *)
(* during the pre-roll are not followed.                                    *)

\* math.exp(-0.2 * k / 4) in ten-thousandths, for k quarter hours
ExpNegQuarter(k) ==
    CASE k = 0 -> 10000
      [] k = 1 -> 9512
      [] k = 2 -> 9048
      [] k = 3 -> 8607
      [] k = 4 -> 8187
      [] k = 5 -> 7788
      [] k = 6 -> 7408

\* new_weight of one held event of the server's engine at current_time
ServerNewWeight(p_event, current_time) ==
    (p_event.relevance_score
        * ExpNegQuarter(current_time - p_event.original_event.timestamp)) \div 10000

\* impact = random.uniform(1.0, 9.0)
StepImpacts == {1000, 5000, 9000}

\* step_simulation(): advance the clock, apply_decay, detect_state and then,
\* if random.random() > 0.8 (inject), ingest one event stamped with the new
\* time
StepSimulation(inject, impact) ==
    /\ ticks < MaxSteps
    /\ LET current_time == ticks + 1
           held == Range(events)
           decayed == [id \in DOMAIN objs |->
                          IF id \in held
                          THEN [objs[id] EXCEPT !.current_weight =
                                    ServerNewWeight(objs[id], current_time)]
                          ELSE objs[id]]
           active_events == ActiveEvents(events, decayed, 1)
           total_risk == TotalRisk(active_events, decayed)
           c    == Classify(total_risk, current_state, current_regime)
           snap == [timestamp     |-> current_time,
                    state         |-> c.state,
                    risk_score    |-> RiskScore(total_risk),
                    active_events |-> TopEvents(active_events, decayed),
                    regime        |-> c.regime]
           heap == Reachable(decayed, active_events, snap)
           id   == NewId(heap)
           event == [timestamp |-> current_time, base_impact |-> impact]
       IN  /\ current_state' = c.state
           /\ current_regime' = c.regime
           /\ tickers' = update_prices(tickers, current_time, total_risk, NoDraws)
           /\ snapshot' = snap
           /\ events' = IF inject THEN Append(active_events, id) ELSE active_events
           /\ objs' = IF inject
                      THEN [i \in DOMAIN heap \cup {id} |->
                               IF i = id THEN ProcessedEvent(event, Relevance(event))
                               ELSE heap[i]]
                      ELSE heap
           /\ last' = [op |-> "step_simulation", now |-> current_time,
                       total_risk |-> total_risk,
                       prev_state |-> current_state, prev_regime |-> current_regime,
                       draws |-> NoDraws,
                       ingested |-> IF inject THEN <<id>> ELSE <<>>]
    /\ ticks' = ticks + 1

StepQuiet == StepSimulation(FALSE, 0)

StepInject == \E impact \in StepImpacts : StepSimulation(TRUE, impact)

ServerNext == StepQuiet \/ StepInject

ServerSpec == Init /\ [][ServerNext]_vars

----------------------------------------------------------------------------
(* RecoverySpec: the loop of main.py, run on after the last scenario event. *)
(* A tick is apply_decay(now) followed by detect_state(now), and the clock  *)
(* (ticks, in hours) advances after it; events are ingested at the head of  *)
(* a tick, and only during the first MaxQuiet hours. The loop keeps         *)
(* running, so both steps of a tick are weakly fair.                        *)

\* the loop is between apply_decay and detect_state of a tick
MidTick == last.op = "apply_decay"

\* two events of 15.0 make a CRASH
RecoveryImpacts == {5000, 15000}

RecoveryIngest ==
    /\ ~MidTick
    /\ ticks < MaxQuiet
    /\ \E e \in [timestamp : 0..ticks, base_impact : RecoveryImpacts] : Ingest(e, MaxBurst)

RecoveryApplyDecay == ~MidTick /\ ticks < MaxRecovery /\ ApplyDecay(ticks)

RecoveryDetectState == MidTick /\ DetectState(ticks, NoDraws, MaxRecovery)

RecoveryNext == RecoveryIngest \/ RecoveryApplyDecay \/ RecoveryDetectState

RecoverySpec ==
    /\ Init
    /\ [][RecoveryNext]_vars
    /\ WF_vars(RecoveryApplyDecay)
    /\ WF_vars(RecoveryDetectState)

----------------------------------------------------------------------------
(* FeedSpec: the enhanced server with USE_REAL_DATA on. Its endpoint        *)
(* /api/v2/ingest/realtime works on the engine it imports from the server,  *)
(* between the engine's operations.                                         *)

\* what the three feeds answer: fetch_oil_prices (the fallback, or a price
\* from EIA with BRENT 5.0 above WTI), fetch_vix (a price, here in a record,
\* or None) and fetch_crypto_price (a dict or None); prices in cents
FeedAnswers ==
    [oil : {[source |-> "simulated", WTI |-> 7250, BRENT |-> 7780],
            [source |-> "EIA", WTI |-> 8000, BRENT |-> 8500]},
     vix : {None, [price |-> 1850]},
     btc : {None, [price |-> 6500000]}]

\* ingest_realtime_data(): the price fetched is assigned to current_price of
\* WTI and BRENT (source EIA only), VIX and BTC; history and change_pct are
\* not touched
IngestRealtimeData ==
    /\ \E f \in FeedAnswers :
          /\ tickers' = [sym \in Symbols |->
                 IF sym \in {"WTI", "BRENT"} /\ f.oil.source = "EIA"
                 THEN [tickers[sym] EXCEPT !.current_price = f.oil[sym]]
                 ELSE IF sym = "VIX" /\ f.vix # None
                 THEN [tickers[sym] EXCEPT !.current_price = f.vix.price]
                 ELSE IF sym = "BTC" /\ f.btc # None
                 THEN [tickers[sym] EXCEPT !.current_price = f.btc.price]
                 ELSE tickers[sym]]
          /\ last' = [op |-> "ingest_realtime_data", feeds |-> f]
    /\ UNCHANGED <<objs, events, current_state, current_regime, snapshot, ticks>>

FeedNext == QueryIngest \/ QueryApplyDecay \/ QueryDetectState \/ IngestRealtimeData

FeedSpec == Init /\ [][FeedNext]_vars

----------------------------------------------------------------------------
(* ShockSpec: ticks under extreme draws. random.gauss is unbounded in       *)
(* principle and reaches beyond eight standard deviations in practice; in   *)
(* a CRASH the VIX has sigma 0.2 and the bias +0.1, so a draw of -5 sigma   *)
(* multiplies its price by 0.1 and a draw of -6 sigma by -0.1. A ledger of  *)
(* two events of 15.0, never decayed, keeps the engine in CRASH. The        *)
(* division in update_prices raises ZeroDivisionError when the oldest       *)
(* retained price is 0.0; the exception leaves detect_state before the      *)
(* snapshot is built.                                                       *)

\* the order of the tickers dict, in which update_prices visits the tickers
SymbolOrder == <<"SPX", "NDX", "BTC", "VIX", "AAPL", "NVDA", "JPM", "XOM", "WTI", "BRENT">>

\* update_prices with its exception: the tickers as the call leaves them and
\* whether it raised. The tickers before the failing one are updated, the
\* failing one has its price and history updated but not its change_pct,
\* the ones after it are untouched.
update_prices_raising(tk, current_time, system_risk, draws) ==
    LET upd == update_prices(tk, current_time, system_risk, draws)
        failing == {k \in 1..Len(SymbolOrder) : upd[SymbolOrder[k]].history[1].price = 0}
        first == CHOOSE k \in failing : \A j \in failing : k <= j
        index == [sym \in Symbols |-> CHOOSE k \in 1..Len(SymbolOrder) : SymbolOrder[k] = sym]
    IN  IF failing = {} THEN [tickers |-> upd, raised |-> FALSE]
        ELSE [tickers |-> [sym \in Symbols |->
                             IF index[sym] < first THEN upd[sym]
                             ELSE IF index[sym] = first
                             THEN [upd[sym] EXCEPT !.change_pct = tk[sym].change_pct]
                             ELSE tk[sym]],
              raised |-> TRUE]

\* the draws of tick n: for the VIX 0, -5 or -6 sigma during the leading
\* ticks, 0 afterwards
ShockDraws(n) ==
    IF n < MaxShocks
    THEN {[NoDraws EXCEPT !["VIX"] = [z |-> z, u |-> 1000]] : z \in {0, -5, -6}}
    ELSE {NoDraws}

ShockIngest ==
    /\ ticks = 0
    /\ Ingest([timestamp |-> 0, base_impact |-> 15000], MaxEvents)

\* a detect_state call whose update_prices returns
ShockDetectState ==
    \E d \in ShockDraws(ticks) :
        /\ ~update_prices_raising(tickers, ticks + 1, TotalRisk(events, objs), d).raised
        /\ DetectState(ticks + 1, d, ShockTicks)

\* a detect_state call whose update_prices raises: state and regime are
\* already assigned, no snapshot is returned
ShockDetectStateRaises ==
    /\ ticks < ShockTicks
    /\ \E d \in ShockDraws(ticks) :
          LET total_risk == TotalRisk(events, objs)
              c == Classify(total_risk, current_state, current_regime)
              r == update_prices_raising(tickers, ticks + 1, total_risk, d)
          IN  /\ r.raised
              /\ current_state' = c.state
              /\ current_regime' = c.regime
              /\ tickers' = r.tickers
              /\ last' = [op |-> "detect_state", now |-> ticks + 1,
                          total_risk |-> total_risk,
                          prev_state |-> current_state, prev_regime |-> current_regime,
                          draws |-> d, raised |-> "ZeroDivisionError"]
    /\ ticks' = ticks + 1
    /\ UNCHANGED <<objs, events, snapshot>>

ShockNext == ShockIngest \/ ShockDetectState \/ ShockDetectStateRaises

ShockSpec == Init /\ [][ShockNext]_vars

----------------------------------------------------------------------------
(* Properties *)

Detected == last.op = "detect_state"

\* C1: a detect_state call whose total risk lies in 5.0 .. 15.0 (both ends
\* included) leaves current_state and current_regime as they were before the
\* call, and returns them in the snapshot.
C1_StickyDeadZone ==
    (Detected /\ last.total_risk >= 5000 /\ last.total_risk <= 15000) =>
        /\ current_state = last.prev_state
        /\ current_regime = last.prev_regime
        /\ snapshot.state = last.prev_state
        /\ snapshot.regime = last.prev_regime

\* C1 witness: from CRASH, a risk inside the dead zone leaves CRASH standing
C1_Witness ==
    /\ Detected
    /\ last.prev_state = "CRASH"
    /\ last.total_risk >= 5000 /\ last.total_risk <= 15000
    /\ current_state = "CRASH" /\ snapshot.regime = "HIGH_VOL"

C3_PruneRule ==
    [][(last'.op = "apply_decay") =>
          LET W(id) == DecayedWeight(objs[id].relevance_score,
                                     last'.now - objs[id].original_event.timestamp)
              Keep(id) == W(id) > 500
          IN  /\ events' = SelectSeq(events, Keep)
              /\ \A i \in 1..Len(events') :
                    objs'[events'[i]] =
                        [objs[events'[i]] EXCEPT !.current_weight = W(events'[i])]
              /\ (events = <<>>) => (events' = <<>>)
      ]_vars

\* C3 witness: apply_decay has removed an event whose new weight is exactly
\* 0.5 (a snapshot still refers to the object) and has kept another
C3_Witness ==
    /\ last.op = "apply_decay"
    /\ events # <<>>
    /\ \E id \in DOMAIN objs \ Range(events) :
          /\ objs[id].current_weight = 500
          /\ objs[id].original_event.timestamp = last.now

\* C4: ingest appends one new object at the end of the ledger, its
\* current_weight and relevance_score equal to the event's base_impact
\* whatever its value; the events already held, their objects, and the
\* current state and regime stay as they were.
C4_IngestAppends ==
    [][(last'.op = "ingest") =>
          LET n == Len(events)
              p == objs'[events'[n + 1]]
          IN  /\ Len(events') = n + 1
              /\ SubSeq(events', 1, n) = events
              /\ events'[n + 1] \notin DOMAIN objs
              /\ \A id \in DOMAIN objs : objs'[id] = objs[id]
              /\ p.current_weight = p.original_event.base_impact
              /\ p.relevance_score = p.original_event.base_impact
              /\ current_state' = current_state
              /\ current_regime' = current_regime
      ]_vars

\* C4 witness: the event just ingested is identical to one that was pruned
\* before, and its impact of 0.5 is held although apply_decay would prune it
C4_Witness ==
    /\ last.op = "ingest"
    /\ events # <<>>
    /\ \E id \in DOMAIN objs \ Range(events) :
          /\ objs[id].original_event = objs[events[Len(events)]].original_event
          /\ objs[id].current_weight <= 500

\* The sum over the held events of the weight each has when decayed to now
DecayedSum(ledger, heap, now) ==
    SumSeq([i \in 1..Len(ledger) |->
              DecayedWeight(heap[ledger[i]].relevance_score,
                            now - heap[ledger[i]].original_event.timestamp)])

\* C5 as claimed: in every detect_state(now) call the total risk classified is
\* the sum over the held events of the weight decayed to that same now.
C5_RiskIsDecayedToNow ==
    Detected => last.total_risk = DecayedSum(events, objs, last.now)

\* C5 as amended: detect_state(now) classifies, and reports rounded to two
\* decimals, the sum of the weights the held events carry at the call; when
\* the call directly follows apply_decay with the same now, that sum is the
\* sum of the weights decayed to now.
C5_RiskIsStoredSum ==
    [][(last'.op = "detect_state") =>
          /\ last'.total_risk =
                SumSeq([i \in 1..Len(events) |-> objs[events[i]].current_weight])
          /\ snapshot'.risk_score = RoundHalfEven(last'.total_risk, 10)
          /\ (last.op = "apply_decay" /\ last.now = last'.now) =>
                last'.total_risk = DecayedSum(events, objs, last'.now)
      ]_vars

\* C5 witness: detect_state(now) right after apply_decay(now), with two
\* decayed events held
C5_Witness ==
    /\ Detected
    /\ Len(events) >= 2
    /\ last.total_risk = DecayedSum(events, objs, last.now)
    /\ \E i \in 1..Len(events) :
          objs[events[i]].current_weight < objs[events[i]].relevance_score

\* C7 as claimed: once returned, a snapshot stays as it was through every
\* later call: its fields, the list of its active events, and the weight
\* seen through each of them.
C7_SnapshotFrozen ==
    [][(snapshot # NoSnapshot /\ last'.op # "detect_state") =>
          /\ snapshot' = snapshot
          /\ \A i \in 1..Len(snapshot.active_events) :
                objs'[snapshot.active_events[i]].current_weight =
                    objs[snapshot.active_events[i]].current_weight
      ]_vars


\* Position of an object in the ledger (its insertion rank)
Pos(id) == CHOOSE i \in 1..Len(events) : events[i] = id

\* C6: the snapshot lists min(5, number held) held events, those of greatest
\* current_weight, in descending weight, events of equal weight in their
\* insertion order.
C6_TopFiveStable ==
    Detected =>
        LET a == snapshot.active_events
            w(id) == objs[id].current_weight
            listed == Range(a)
        IN  /\ Len(a) = (IF Len(events) < 5 THEN Len(events) ELSE 5)
            /\ listed \subseteq Range(events)
            /\ Cardinality(listed) = Len(a)
            /\ \A i, j \in 1..Len(a) : i < j =>
                  \/ w(a[i]) > w(a[j])
                  \/ w(a[i]) = w(a[j]) /\ Pos(a[i]) < Pos(a[j])
            /\ \A x \in listed : \A y \in Range(events) \ listed :
                  \/ w(x) > w(y)
                  \/ w(x) = w(y) /\ Pos(x) < Pos(y)

\* C6 witness: six or more events held, the five listed are not the first
\* five ingested, and an event left out ties with one that is listed
C6_Witness ==
    /\ Detected
    /\ Len(events) > 5
    /\ Len(snapshot.active_events) = 5
    /\ snapshot.active_events # SubSeq(events, 1, 5)
    /\ \E x \in Range(snapshot.active_events) :
          \E y \in Range(events) \ Range(snapshot.active_events) :
              objs[x].current_weight = objs[y].current_weight
    /\ \E i \in 1..4 :
          objs[snapshot.active_events[i]].current_weight =
              objs[snapshot.active_events[i + 1]].current_weight

\* C8: a history never holds more than 100 points; each tick appends one
\* point per ticker and, past 100, drops the oldest, so that the points held
\* are the most recent ones in the order they were appended (the point of
\* tick n carries timestamp n).
C8_BoundedHistory ==
    \A sym \in Symbols :
        LET h == tickers[sym].history
        IN  /\ Len(h) <= 100
            /\ Len(h) = (IF ticks + 1 < 100 THEN ticks + 1 ELSE 100)
            /\ \A i \in 1..Len(h) : h[i].timestamp = ticks - Len(h) + i

\* C8 witness: more ticks than the history holds, the first points are gone
C8_Witness ==
    /\ ticks > 100
    /\ \A sym \in Symbols :
          /\ Len(tickers[sym].history) = 100
          /\ tickers[sym].history[1].timestamp = ticks - 99
          /\ tickers[sym].history[100].timestamp = ticks

\* C9: after every tick, change_pct is (current_price - p0) / p0 * 100 with
\* p0 the price of the oldest point the history holds after the tick.
C9_ChangeFromOldest ==
    (ticks > 0) =>
        \A sym \in Symbols :
            LET t  == tickers[sym]
                p0 == t.history[1].price
            IN  t.change_pct = [num |-> t.current_price - p0, den |-> p0]

\* C9 witness: the starting point has been evicted, and the oldest point
\* held differs in price from the starting point and from the previous tick
C9_Witness ==
    /\ ticks > 100
    /\ \A sym \in Symbols :
          LET h == tickers[sym].history
          IN  /\ h[1].timestamp > 0
              /\ h[1].price # StartPrice(sym)
              /\ h[1].price # h[Len(h) - 1].price
              /\ tickers[sym].change_pct.den = h[1].price

\* C10: in each tick, bias and volatility multiplier follow from the risk
\* alone: (-0.02, 4.0) above 25, (-0.005, 2.0) above 15 up to 25, (0.001, 0.8)
\* below 5, (0, 1.0) otherwise; the price change is shock + bias, for VIX
\* shock - 5 * bias, and the new price is the old one times (1 + change),
\* rounded to cents.
C10_BiasAndMultiplier ==
    Detected =>
        LET risk == last.total_risk
            bias == IF risk > 25000 THEN -200
                    ELSE IF risk > 15000 /\ risk <= 25000 THEN -50
                    ELSE IF risk < 5000 THEN 10 ELSE 0
            mult == IF risk > 25000 THEN 40
                    ELSE IF risk > 15000 /\ risk <= 25000 THEN 20
                    ELSE IF risk < 5000 THEN 8 ELSE 10
        IN  \A sym \in Symbols :
                LET h     == tickers[sym].history
                    old   == IF Len(h) > 1 THEN h[Len(h) - 1].price ELSE 0
                    shock == Shock(sym, last.draws[sym].z, mult)
                    pct   == IF sym = "VIX" THEN shock - 5 * bias ELSE shock + bias
                IN  /\ Len(h) > 1
                    /\ tickers[sym].current_price = NewPrice(old, pct)
                    /\ h[Len(h)].price = tickers[sym].current_price
                    /\ h[Len(h)].volume = (last.draws[sym].u * mult) \div 10

\* C10 witness: a tick at risk exactly 25.0 with a non-zero shock: VIX moves
\* by shock + 0.025, the others by shock - 0.005
C10_Witness ==
    /\ Detected
    /\ last.total_risk = 25000
    /\ last.draws["VIX"].z = 1
    /\ tickers["VIX"].current_price =
          NewPrice(tickers["VIX"].history[Len(tickers["VIX"].history) - 1].price, 1000 + 250)
    /\ tickers["SPX"].current_price =
          NewPrice(tickers["SPX"].history[Len(tickers["SPX"].history) - 1].price, 40 - 50)

\* C11: right after apply_decay(now), every held event carries the weight
\* relevance_score * exp(-decay_rate * age), age being the hours from the
\* event's timestamp to now; an event of impact 10.0 decayed for one hour at
\* rate 0.7 weighs 4.966.
C11_DecayClosedForm ==
    (last.op = "apply_decay") =>
        \A i \in 1..Len(events) :
            LET p == objs[events[i]]
                age_hours == last.now - p.original_event.timestamp
            IN  /\ p.current_weight = (p.relevance_score * ExpNeg(age_hours)) \div 10000
                /\ (p.relevance_score = 10000 /\ age_hours = 1) => p.current_weight = 4966

\* C11 witness: an event of impact 10.0 stamped at hour 0 is held after
\* apply_decay at hour 1 with weight 4.966
C11_Witness ==
    /\ last.op = "apply_decay" /\ last.now = 1
    /\ \E i \in 1..Len(events) :
          /\ objs[events[i]].relevance_score = 10000
          /\ objs[events[i]].original_event.timestamp = 0
          /\ objs[events[i]].current_weight = 4966

\* C12: decay never raises a weight. For every positive weight and all ages
\* 0 <= age1 < age2 the weight decayed for age2 is at most the weight decayed
\* for age1; and when apply_decay is called with times that never decrease
\* and are not before the event's timestamp, each call leaves every event it
\* keeps with a weight no greater than the one it had and no greater than
\* its relevance_score.
C12_DecayMonotone ==
    [][(last'.op = "apply_decay") =>
          \A i \in 1..Len(events') :
              LET id == events'[i]
                  weight == objs[id].relevance_score
              IN  /\ objs'[id].current_weight <= objs[id].current_weight
                  /\ objs'[id].current_weight <= objs'[id].relevance_score
                  /\ \A age1 \in 0..MaxClock : \A age2 \in (age1 + 1)..(MaxClock + 1) :
                        DecayedWeight(weight, age2) <= DecayedWeight(weight, age1)
      ]_vars

\* C12 witness: apply_decay at hour 2 has lowered to 2.466 an event of impact
\* 10.0 that apply_decay at hour 1 had already lowered to 4.966, the risk the
\* snapshot of hour 1 reports
C12_Witness ==
    /\ last.op = "apply_decay" /\ last.now = 2
    /\ snapshot.timestamp = 1 /\ snapshot.risk_score = 497
    /\ Len(events) = 1
    /\ objs[events[1]].relevance_score = 10000
    /\ objs[events[1]].original_event.timestamp = 0
    /\ objs[events[1]].current_weight = 2466

\* C13: calculate_decay_batch returns an array as long as its input whose
\* element i is weight_i * exp(-rate * (now - timestamp_i)), the same whatever
\* the other elements are (it is what the function returns for the pair i
\* alone), and equal to the weight apply_decay gives an event of that
\* relevance_score and timestamp.
C13_BatchEqualsScalar ==
    (last.op = "calculate_decay_batch") =>
        /\ Len(last.result) = Len(last.weights)
        /\ \A i \in 1..Len(last.weights) :
              LET weight == last.weights[i]
                  ts == last.timestamps[i]
                  p_event == ProcessedEvent([timestamp |-> ts, base_impact |-> weight],
                                            weight)
              IN  /\ last.result[i] =
                        (weight * ExpNeg(last.current_ts - ts)) \div 10000
                  /\ last.result[i] =
                        calculate_decay_batch(<<weight>>, <<ts>>, last.current_ts)[1]
                  /\ last.result[i] = NewWeight(p_event, last.current_ts)

\* C13 witness: a batch of three with different weights and ages, one of
\* them stamped at the current time
C13_Witness ==
    /\ last.op = "calculate_decay_batch"
    /\ last.weights = <<10000, 5000, 10000>>
    /\ last.timestamps = <<1, 0, 2>>
    /\ last.current_ts = 2
    /\ last.result = <<4966, 1233, 10000>>

\* C14: calculate_bollinger_bands returns three lists as long as the history,
\* and at every index with fewer than `window` points available (every index
\* of a history shorter than `window` among them) the upper, middle and lower
\* values all equal the raw price at that index.
C14_BandPassThrough ==
    (last.op = "calculate_bollinger_bands") =>
        LET n == Len(last.history)
            r == last.result
        IN  /\ Len(r.upper) = n /\ Len(r.middle) = n /\ Len(r.lower) = n
            /\ \A i \in 1..n :
                  (i < last.window) =>
                      /\ r.upper[i] = 100 * last.history[i].price
                      /\ r.middle[i] = 100 * last.history[i].price
                      /\ r.lower[i] = 100 * last.history[i].price

\* C14 witness: window 20 and 21 points, the 19th off the base price: index
\* 19 passes the raw price through, indices 20 and 21 carry computed bands
C14_Witness ==
    /\ last.op = "calculate_bollinger_bands"
    /\ last.window = DefaultWindow
    /\ Len(last.history) = 21
    /\ last.history[19].price = BasePrice + 40
    /\ last.result.upper[19] = 100 * (BasePrice + 40)
    /\ last.result.lower[19] = 100 * (BasePrice + 40)
    /\ last.result.middle[20] = 100 * BasePrice + 200
    /\ last.result.upper[20] > last.result.middle[20]
    /\ last.result.lower[21] < last.result.middle[21]

\* C15: for every price list, calculate_bollinger_bands_vectorized returns
\* arrays as long as the input whose values are those calculate_bollinger_bands
\* returns for a history with these prices (raw prices below the window,
\* population standard deviation in the band width).
C15_VectorizedEqualsLoop ==
    (last.op = "calculate_bollinger_bands_vectorized") =>
        LET history == [i \in 1..Len(last.prices) |-> PricePoint(i - 1, last.prices[i], 0)]
        IN  /\ Len(last.result.middle) = Len(last.prices)
            /\ last.result = calculate_bollinger_bands(history, last.window)

\* C16: given the same system_risk, the same current prices and the same
\* shocks per instrument, batch_update_prices gives every instrument of the
\* universe, the volatility index VIX included, the new price that
\* MarketSimulator.update_prices gives it.
C16_BatchPricesEqualLoop ==
    (last.op = "batch_update_prices") =>
        LET tk == [sym \in Symbols |->
                      [Ticker(last.current_prices[sym]) EXCEPT
                          !.history = <<PricePoint(0, last.current_prices[sym], 0)>>]]
            updated == update_prices(tk, 1, last.system_risk, last.draws)
        IN  \A sym \in Symbols : last.result[sym] = updated[sym].current_price

\* the part of C16 that does hold: every instrument other than VIX gets the
\* same new price from both, and VIX too while the bias is zero
BatchPricesEqualOutsideVix ==
    (last.op = "batch_update_prices") =>
        LET tk == [sym \in Symbols |->
                      [Ticker(last.current_prices[sym]) EXCEPT
                          !.history = <<PricePoint(0, last.current_prices[sym], 0)>>]]
            updated == update_prices(tk, 1, last.system_risk, last.draws)
        IN  \A sym \in Symbols :
                (sym # "VIX" \/ Bias(last.system_risk) = 0) =>
                    last.result[sym] = updated[sym].current_price

\* C17: get_ticker(symbol), for every symbol, and get_all_tickers() change
\* nothing: the ledger, every event's weight, current_state, current_regime
\* and every ticker's price, change_pct and history are after the call what
\* they were before it.
C17_AccessorsReadOnly ==
    [][(last'.op \in {"get_ticker", "get_all_tickers"}) =>
          /\ events' = events
          /\ objs' = objs
          /\ current_state' = current_state
          /\ current_regime' = current_regime
          /\ tickers' = tickers
      ]_vars

\* C17 witness: get_ticker has returned VIX as the tick left it, with an
\* event held and the state changed by it
C17_Witness ==
    /\ last.op = "get_ticker" /\ last.symbol = "VIX"
    /\ events # <<>>
    /\ ticks = 1
    /\ last.result = tickers["VIX"]
    /\ Len(last.result.history) = 2
    /\ last.result.current_price # StartPrice("VIX")

\* C18: a symbol outside the universe is reported as not found. get_ticker
\* returns the not-found value for it, never a Ticker (zero-valued or new);
\* the QUOTE command answers it with the error 'Symbol Not Found.', and a
\* symbol of the universe with that ticker's quote; the set of known tickers
\* is the universe before and after every query.
C18_UnknownSymbolNotFound ==
    /\ DOMAIN tickers = Symbols
    /\ (last.op = "get_ticker") =>
          IF last.symbol \in Symbols
          THEN last.result = tickers[last.symbol]
          ELSE last.result = None
    /\ (last.op = "QUOTE") =>
          IF last.symbol \in Symbols
          THEN /\ last.result.type = "QUOTE"
               /\ last.result.price = tickers[last.symbol].current_price
          ELSE last.result = [type |-> "ERROR", content |-> "Symbol Not Found."]

\* C18 witness: QUOTE TSLA has been answered with the error after a tick
C18_Witness ==
    /\ last.op = "QUOTE" /\ last.symbol = "TSLA"
    /\ last.result.type = "ERROR"
    /\ last.result.content = "Symbol Not Found."
    /\ ticks = 1
    /\ "TSLA" \notin DOMAIN tickers

\* C19: EVENT n answers 'Event ID Not Found.' for every integer n that is
\* not an ID of the TODAY listing (0 .. len(events) - 1), every negative n
\* among them, and for an n of the listing it explains the event listed
\* with that ID.
C19_EventIdOutsideListing ==
    (last.op = "EVENT") =>
        IF last.evt_id \in 0..(Len(events) - 1)
        THEN /\ last.result.type = "TEXT"
             /\ last.result.event = events[last.evt_id + 1]
        ELSE last.result = [type |-> "ERROR", content |-> "Event ID Not Found."]

\* the part of C19 that does hold: from 0 upwards the IDs of the listing are
\* explained and all others refused, and an n below -len(events) is refused
EventIdFromZero ==
    (last.op = "EVENT" /\ (last.evt_id >= 0 \/ last.evt_id < -Len(events))) =>
        IF last.evt_id \in 0..(Len(events) - 1)
        THEN /\ last.result.type = "TEXT"
             /\ last.result.event = events[last.evt_id + 1]
        ELSE last.result = [type |-> "ERROR", content |-> "Event ID Not Found."]

\* C20: for a ticker with fewer than 20 history points analyze_risk_depth
\* returns the placeholder (depth LOW, advice INSUFFICIENT DATA) and does not
\* raise; with 20 points or more it reports the current price as overbought
\* when it is above the latest upper band, as oversold when it is below the
\* latest lower band, and as neutral otherwise.
C20_RiskDepth ==
    (last.op = "analyze_risk_depth") =>
        LET history == last.ticker.history
            n == Len(history)
            price == 100 * last.ticker.current_price
            bands == calculate_bollinger_bands(history, 20)
        IN  /\ "depth" \in DOMAIN last.result
            /\ IF n < 20
               THEN /\ last.result.depth = "LOW"
                    /\ last.result.advice = "INSUFFICIENT DATA"
               ELSE last.result.depth =
                       IF price > bands.upper[n] THEN "CRITICAL (OVERBOUGHT)"
                       ELSE IF price < bands.lower[n] THEN "OPPORTUNITY (OVERSOLD)"
                       ELSE "NEUTRAL"

\* the part of C20 that does hold: the same, for every ticker whose latest
\* middle band is not 0 or whose history has fewer than 20 points
RiskDepthNonzeroMiddle ==
    (last.op = "analyze_risk_depth") =>
        LET history == last.ticker.history
            n == Len(history)
            price == 100 * last.ticker.current_price
            bands == calculate_bollinger_bands(history, 20)
        IN  IF n < 20
            THEN /\ last.result.depth = "LOW"
                 /\ last.result.advice = "INSUFFICIENT DATA"
            ELSE (bands.middle[n] # 0) =>
                    last.result.depth =
                       IF price > bands.upper[n] THEN "CRITICAL (OVERBOUGHT)"
                       ELSE IF price < bands.lower[n] THEN "OPPORTUNITY (OVERSOLD)"
                       ELSE "NEUTRAL"

\* C20 witness: exactly 20 points, the newest 0.40 above the other 19, is
\* reported as overbought with the lower band as bid
C20_Witness ==
    /\ last.op = "analyze_risk_depth"
    /\ Len(last.ticker.history) = 20
    /\ last.ticker.current_price = BasePrice + 40
    /\ last.result.depth = "CRITICAL (OVERBOUGHT)"
    /\ last.result.advice = "SELL / HEDGE"
    /\ last.result.bid < 100 * BasePrice

\* C21: analyze_risk_depth guards a zero band middle: when the latest middle
\* band value is 0 the call still returns a result, with a sentinel in place
\* of the volatility (upper - lower) / middle, and does not fail with a
\* division by zero.
C21_ZeroMiddleGuarded ==
    (last.op = "analyze_risk_depth" /\ Len(last.ticker.history) >= 20) =>
        LET n == Len(last.ticker.history)
            bands == calculate_bollinger_bands(last.ticker.history, 20)
        IN  (bands.middle[n] = 0) =>
                /\ "raised" \notin DOMAIN last.result
                /\ "volatility" \in DOMAIN last.result

\* C22: concurrent calls on one engine exclude each other, so that every
\* interleaving comes to some serial order of whole calls; in particular an
\* event ingested while an apply_decay is in progress is in the ledger when
\* that call has finished (in either serial order it would be: its weight
\* is above 0.5 at the time of the call).
C22_CallsSerialized ==
    [][(last.op = "apply_decay:loop" /\ last'.op = "apply_decay") =>
          \A i \in 1..Len(last.during) : last.during[i] \in Range(events')
      ]_vars

\* C23: in every driver a tick ingests first and calls apply_decay and
\* detect_state afterwards, so that an event ingested during a tick is
\* counted in the total risk of that tick's detect_state: after a tick, the
\* risk that the tick classified is the sum of the weights of the ledger,
\* the events ingested in the tick included.
C23_IngestedCountedInTick ==
    (last.op = "step_simulation") => last.total_risk = TotalRisk(events, objs)

\* C24: batch_update_tankers moves exactly the tankers that are MOVING and at
\* least 2.0 from their destination, each by 0.8 * speed_factor along the
\* unit vector toward the destination (the step is parallel to the offset,
\* points the same way and has that length); every other tanker keeps its
\* latitude and longitude; the arrival mask is true exactly where the
\* clamped distance is below 2.0; the arrays given are not modified; the
\* distance divided by is never below 0.001, so no quotient is undefined.
C24_TankerFrame ==
    (last.op = "batch_update_tankers") =>
        LET r == last.result
            speed == 800 * last.speed_factor
        IN  /\ r.latitudes = last.latitudes
            /\ r.longitudes = last.longitudes
            /\ \A i \in 1..Len(last.latitudes) :
                  LET dy == last.dest_lats[i] - last.latitudes[i]
                      dx == last.dest_lons[i] - last.longitudes[i]
                      step_lat == r.new_lats[i] - last.latitudes[i]
                      step_lon == r.new_lons[i] - last.longitudes[i]
                  IN  /\ r.distances[i] >= 1
                      /\ r.distances[i] * r.distances[i] = dx * dx + dy * dy
                            \/ (dx = 0 /\ dy = 0 /\ r.distances[i] = 1)
                      /\ r.arrived_mask[i] <=> (r.distances[i] < 2000)
                      /\ step_lat \in Int /\ step_lon \in Int
                      /\ IF last.statuses[i] = Moving /\ dx * dx + dy * dy >= 4000000
                         THEN /\ step_lat * step_lat + step_lon * step_lon = speed * speed
                              /\ step_lat * dx = step_lon * dy
                              /\ step_lat * dy + step_lon * dx > 0
                         ELSE step_lat = 0 /\ step_lon = 0

\* a fleet of two: a MOVING tanker exactly 2.0 from its destination has
\* moved, and a tanker that is not MOVING, 5.0 away, has stayed
C24_Witness ==
    /\ last.op = "batch_update_tankers"
    /\ Len(last.latitudes) = 2
    /\ last.statuses = <<Moving, 0>>
    /\ last.result.distances = <<2000, 5000>>
    /\ last.result.new_lats[1] # last.latitudes[1]
    /\ last.result.new_lats[2] = last.latitudes[2]
    /\ last.result.arrived_mask = <<FALSE, FALSE>>

\* C25: the engine starts in (STABLE, LOW_VOL), and in every reachable state
\* (current_state, current_regime) is one of (STABLE, LOW_VOL),
\* (HIGH_VOLATILITY, HIGH_VOL) and (CRASH, HIGH_VOL); BULL_RUN, BEAR_MARKET,
\* TRENDING_UP and TRENDING_DOWN are never reached. The snapshot returned
\* carries the same pair.
C25_StateRegimePairs ==
    /\ <<current_state, current_regime>> \in
           {<<"STABLE", "LOW_VOL">>, <<"HIGH_VOLATILITY", "HIGH_VOL">>,
            <<"CRASH", "HIGH_VOL">>}
    /\ (last.op = "init") => (current_state = "STABLE" /\ current_regime = "LOW_VOL")
    /\ (snapshot # NoSnapshot) =>
           (snapshot.state = current_state /\ snapshot.regime = current_regime)

\* a detect_state call has left the dead zone upward into CRASH, and the
\* ledger has since been emptied without a new classification
C25_Witness ==
    /\ current_state = "CRASH"
    /\ current_regime = "HIGH_VOL"
    /\ last.op = "apply_decay"
    /\ snapshot.state = "CRASH"

\* C26: in every detect_state call, the bias and the volatility multiplier
\* of the tick's price update are those of the state in the snapshot the
\* call returns: CRASH -> (-0.02, 4.0), HIGH_VOLATILITY -> (-0.005, 2.0),
\* STABLE -> (+0.001, 0.8).
C26_BiasOfReportedState ==
    (last.op = "detect_state") =>
        <<Bias(last.total_risk), VolatilityMultiplier(last.total_risk)>> =
            (CASE snapshot.state = "CRASH" -> <<-200, 40>>
               [] snapshot.state = "HIGH_VOLATILITY" -> <<-50, 20>>
               [] snapshot.state = "STABLE" -> <<10, 8>>)

\* outside the band 5.0 <= risk <= 15.0 the price update does use the bias
\* and the multiplier of the reported state
BiasOfReportedStateOutsideBand ==
    (last.op = "detect_state" /\ (last.total_risk < 5000 \/ last.total_risk > 15000)) =>
        <<Bias(last.total_risk), VolatilityMultiplier(last.total_risk)>> =
            (CASE snapshot.state = "CRASH" -> <<-200, 40>>
               [] snapshot.state = "HIGH_VOLATILITY" -> <<-50, 20>>
               [] snapshot.state = "STABLE" -> <<10, 8>>)

\* the ledger of a result of apply_decay, as the sequence of its objects
Held(r) == [i \in 1..Len(r.events) |-> r.objs[r.events[i]]]

\* C27: apply_decay is idempotent and history-independent for a fixed time:
\* from every reachable state, apply_decay(t) twice gives the ledger and the
\* weights of apply_decay(t) once, and apply_decay(t1) followed by
\* apply_decay(t2), t1 <= t2, gives those of apply_decay(t2) alone; and the
\* calls the engine makes are these functions of the state.
C27_DecayHistoryIndependent ==
    [][/\ \A t1, t2 \in DecayTimes :
             (t1 <= t2) =>
                 LET once == apply_decay(events, objs, t1)
                 IN  Held(apply_decay(once.events, once.objs, t2))
                         = Held(apply_decay(events, objs, t2))
       /\ (last'.op = "apply_decay") =>
             LET r == apply_decay(events, objs, last'.now)
             IN  /\ events' = r.events
                 /\ \A id \in Range(events') : objs'[id] = r.objs[id]
      ]_vars

\* apply_decay(2) has been called on a ledger of two events: one stamped 0,
\* whose weight the call has lowered, and one stamped with the hour of the
\* call
C27_Witness ==
    /\ last.op = "apply_decay"
    /\ last.now = 2
    /\ Len(events) = 2
    /\ objs[events[1]].original_event.timestamp = 0
    /\ objs[events[1]].current_weight < 4000
    /\ objs[events[2]].original_event.timestamp = 2

\* the ledger is empty, the total risk is 0 and the state is (STABLE, LOW_VOL)
Recovered ==
    /\ events = <<>>
    /\ TotalRisk(events, objs) = 0
    /\ current_state = "STABLE"
    /\ current_regime = "LOW_VOL"

\* C28: recovery. When from some hour on no event is ingested and every tick
\* calls apply_decay(now) and then detect_state(now), with now increasing
\* from tick to tick, then eventually the ledger is empty, the total risk is
\* 0 and the state is (STABLE, LOW_VOL), and this stays so on every later
\* tick.
C28_Recovery == <>[](Recovered /\ ticks >= MaxQuiet)

\* after the last ingest, apply_decay has just dropped the last event held,
\* which the snapshot of the tick before still counted
C28_Witness ==
    /\ ticks >= MaxQuiet
    /\ last.op = "apply_decay"
    /\ events = <<>>
    /\ snapshot.risk_score > 0

\* C29: in every reachable state each ticker's current_price is the price of
\* the newest PricePoint of its history, the real-time ingestion endpoint of
\* the enhanced server being among the operations (a ticker's price and
\* history change only together, in the per-tick update).
C29_PriceIsNewestPoint ==
    \A sym \in Symbols :
        LET t == tickers[sym]
        IN  t.current_price = t.history[Len(t.history)].price

\* without the endpoint: a step that is not ingest_realtime_data leaves
\* every current_price at the newest point of its history, and a step that
\* is not detect_state leaves every history as it is
PriceIsNewestPointElsewhere ==
    [][/\ (last'.op # "ingest_realtime_data" /\ C29_PriceIsNewestPoint)
             => C29_PriceIsNewestPoint'
       /\ (last'.op # "detect_state") =>
             \A sym \in Symbols : tickers'[sym].history = tickers[sym].history
      ]_vars

\* C30: no tick aborts on a degenerate price: whatever shocks are drawn,
\* every price stored in a ticker's history is strictly positive, so the
\* division by the oldest retained price is defined and update_prices (and
\* with it detect_state) never raises.
C30_PricesStayPositive ==
    /\ \A sym \in Symbols :
          \A i \in 1..Len(tickers[sym].history) : tickers[sym].history[i].price > 0
    /\ "raised" \notin DOMAIN last

\* a tick fails only through the division: whenever detect_state has raised,
\* the oldest retained price of some ticker is 0.0
RaisedOnlyAtZeroPrice ==
    ("raised" \in DOMAIN last) =>
        \E sym \in Symbols : tickers[sym].history[1].price = 0

====
